---- MODULE Spec2Model ----
(***************************************************************************)
(* Model of the driver run_genomcmcgan of src/genomcmcgan.py: the loop     *)
(* that alternates discriminator training and MCMC sampling.               *)
(*                                                                         *)
(* Units.  Validation accuracies are percentages (0.55 is 55); an          *)
(* accuracy is a record [nan, pct] so that a NaN returned by fit is a      *)
(* value of its own.  Samples and step sizes are small naturals.  A        *)
(* median is stored doubled (np.median averages the two middle values of   *)
(* an even-length row) and a standard deviation is stored as n*n times     *)
(* the population variance, n being the length of the row.                 *)
(***************************************************************************)
EXTENDS Integers, Sequences, FiniteSets, TLC

\* ---- bounds of the model ------------------------------------------------
MaxNumIters == 3
MaxSamples == 2

IterCap == MaxNumIters

ParamOrder == <<"p1", "p2">>
ParamNames == {ParamOrder[k] : k \in 1..Len(ParamOrder)}
SampleVals == {1, 3}
StepSizeVals == {1, 2}

\* The outcomes of a chain that the model feeds in.  A row of n retained
\* values holds one value up to the last position and any value at the last.
Rows(n, vals) ==
  {[j \in 1..n |-> IF j = n THEN pr[2] ELSE pr[1]] : pr \in vals \X vals}

\* Sample matrices: k independent rows of n samples.
SampleMatrices(k, n) == [1..k -> Rows(n, SampleVals)]

\* Step-size traces: the trace of coordinate 1 is any row whose last step
\* size differs from the ones before, and each further coordinate swaps the
\* two step sizes of the coordinate before it.
Swap(row) == [j \in 1..Len(row) |-> 3 - row[j]]

StepTraceMatrices(k, n) ==
  {m \in [1..k -> Rows(n, StepSizeVals)] :
     /\ \A i \in 1..k : n > 1 => m[i][1] # m[i][n]
     /\ \A i \in 2..k : m[i] = Swap(m[i - 1])}

\* ---- program constants --------------------------------------------------
Threshold == 55

\* mcmcgan.iter as the MCMCGAN constructor leaves it: no iteration done yet.
InitialIter == 0

\* ---- accuracies returned by Discriminator.fit ---------------------------
AccNum(p) == [nan |-> FALSE, pct |-> p]
AccNaN == [nan |-> TRUE, pct |-> 0]
AccVals == {AccNum(40), AccNum(50), AccNum(55), AccNaN}

\* Python's float comparison a < t: False whenever a is NaN.
FloatLt(a, t) == (~a.nan) /\ a.pct < t

VARIABLES
  pc,                \* position of the driver in run_genomcmcgan
  max_num_iters,     \* argument
  data_path,         \* argument: TRUE when a data file is given
  num_mcmc_samples,  \* argument
  params,            \* genob.params: the Parameter Store
  data,              \* (xtrain, xval, ytrain, yval): where the dataset came from
  iter,              \* mcmcgan.iter
  accs,              \* list of validation accuracies
  samples,           \* mcmcgan.samples, one row per inferable parameter
  sample_stats,      \* sample_stats["step_size"], one row per inferable parameter
  medians,           \* local medians: [bound, v]
  stds,              \* local stds
  convergence,       \* TRUE once "convergence" has been printed
  reported,          \* what print(medians) wrote: [done, v]
  ret,               \* how the call ended: "running", "None" or the exception raised
  nTrain,            \* number of calls of fit
  nSample,           \* number of calls of run_chain
  nUpdate,           \* number of executions of the update loop of lines 129-134
  nBridge,           \* number of driver-level calls of genob.generate_data
  discriminator_model, \* argument: TRUE when a model file is given
  discriminator,     \* mcmcgan.discriminator: [origin, inits, fits]
  trained_on,        \* the dataset the latest call of fit was given
  phases,            \* the phases of the current iteration, in order
  lpc,               \* position of the command line program (__main__)
  kernel_name,       \* --kernel-name as typed
  seed,              \* --seed as typed
  invocation,        \* which of the two invocations of the command line runs
  rng,               \* the three random streams of the invocation
  summaries          \* per invocation, the summary of each iteration

vars == <<pc, max_num_iters, data_path, num_mcmc_samples, params, data, iter,
          accs, samples, sample_stats, medians, stds, convergence, reported,
          ret, nTrain, nSample, nUpdate, nBridge, discriminator_model,
          discriminator, trained_on, phases, lpc, kernel_name, seed,
          invocation, rng, summaries>>

launchVars == <<lpc, kernel_name, seed, invocation, rng, summaries>>

\* The command line program is not part of the run of the driver alone.
LaunchIdle ==
  /\ lpc = "called"
  /\ kernel_name = "hmc"
  /\ seed = "None"
  /\ invocation = 1
  /\ rng = <<>>
  /\ summaries = <<>>

\* ---- helpers ------------------------------------------------------------
Last(s) == s[Len(s)]

RECURSIVE SumSeq(_)
SumSeq(s) == IF s = <<>> THEN 0 ELSE s[1] + SumSeq(Tail(s))

RECURSIVE Insert(_, _)
Insert(x, s) ==
  IF s = <<>> THEN <<x>>
  ELSE IF x <= s[1] THEN <<x>> \o s ELSE <<s[1]>> \o Insert(x, Tail(s))

RECURSIVE Sorted(_)
Sorted(s) == IF s = <<>> THEN <<>> ELSE Insert(s[1], Sorted(Tail(s)))

\* np.median of one row, doubled.
Median2(row) ==
  LET s == Sorted(row)
      n == Len(row)
  IN IF n % 2 = 1 THEN 2 * s[(n + 1) \div 2]
     ELSE s[n \div 2] + s[n \div 2 + 1]

\* np.std of one row: n*n times the population variance.
StdN2(row) ==
  LET n == Len(row)
  IN n * SumSeq([k \in 1..n |-> row[k] * row[k]]) - SumSeq(row) * SumSeq(row)

\* np.median(mcmcgan.samples, axis=1) and np.std(mcmcgan.samples, axis=1)
MedianAxis1(m) == [i \in 1..Len(m) |-> Median2(m[i])]
StdAxis1(m) == [i \in 1..Len(m) |-> StdN2(m[i])]

\* genob.inferable_params: the inferable parameters in their fixed order.
InferableParams(ps) == SelectSeq(ParamOrder, LAMBDA p : ps[p].inferable)

Index(seq, x) == CHOOSE k \in 1..Len(seq) : seq[k] = x

\* ---- the decisions of the loop ------------------------------------------
\* line 70: while max_num_iters != mcmcgan.iter
LoopCond(m, it) == m # it

\* Variant of the check at line 101 in which the loop never stops early.
Converged_off(a) == FALSE

\* Variant of the check at line 101 with the threshold at 0.5.
Converged_half(a) == FloatLt(Last(a), 50)

\* line 101: if accs[-1] < 0.55
Converged(a) == FloatLt(Last(a), Threshold)

\* np.percentile of one row (linear interpolation), times 1000; q is the
\* percentile in tenths of a percent (25 is the 2.5th percentile).
Percentile1000(row, q) ==
  LET s == Sorted(row)
      n == Len(row)
      lo == ((n - 1) * q) \div 1000
      fr == ((n - 1) * q) % 1000
  IN IF lo + 2 > n THEN 1000 * s[n]
     ELSE 1000 * s[lo + 1] + fr * (s[lo + 2] - s[lo + 1])

\* Variant of the update that also writes the 2.5 / 97.5 percentile
\* interval of the samples into the bounds.
UpdatedParam_bounds(p, i, smp, stats) ==
  [p EXCEPT !.step_size = Last(stats[i]),
            !.proposals = smp[i],
            !.init = Last(smp[i]),
            !.bounds = <<Percentile1000(smp[i], 25),
                         Percentile1000(smp[i], 975)>>]

\* Variant of the update that takes the first sample and the first recorded
\* step size in place of the last ones.
UpdatedParam_first(p, i, smp, stats) ==
  [p EXCEPT !.step_size = stats[i][1],
            !.proposals = smp[i],
            !.init = smp[i][1]]

\* lines 132-134: the fields of one inferable parameter after the update
UpdatedParam(p, i, smp, stats) ==
  [p EXCEPT !.step_size = Last(stats[i]),
            !.proposals = smp[i],
            !.init = Last(smp[i])]

\* Variant in which the parameters are not yet updated when the new data
\* are requested.
UpdatedParams_late(ps, smp, stats) == ps

\* lines 129-134: the whole update loop over enumerate(inferable_params)
UpdatedParams(ps, smp, stats) ==
  LET inf == InferableParams(ps)
  IN [q \in ParamNames |->
        IF ps[q].inferable
        THEN UpdatedParam(ps[q], Index(inf, q), smp, stats)
        ELSE ps[q]]

\* Variant of line 72 in which the counter advances by two.
NextIter_twice(it) == it + 2

\* line 72: mcmcgan.iter += 1
NextIter(it) == it + 1

\* ---- datasets ------------------------------------------------------------
\* A dataset is known by where it came from: the file, or the Bridge call
\* that made it and the proposals the Bridge drew the simulations from.
NoData == [src |-> "none", gen |-> 0, proposals |-> <<>>]

\* Which dataset it is: the file, or the number of the Bridge call.
DataId(d) == [src |-> d.src, gen |-> d.gen]

\* Variant of lines 42-46 that calls generate_data whether or not a data
\* file is given.
BridgeCallsAtLoad_always(dp) == 1

\* lines 42-46: number of generate_data calls made to get the first datasets
BridgeCallsAtLoad(dp) == IF dp THEN 0 ELSE 1

\* lines 42-46: the first datasets
LoadedData(dp, nb) ==
  IF dp THEN [src |-> "file", gen |-> 0, proposals |-> <<>>]
  ELSE [src |-> "generate_data", gen |-> nb + 1, proposals |-> <<>>]

\* lines 137-139: generate_data(num_mcmc_samples, proposals=True) simulates
\* from the proposals the inferable parameters hold when it is called
GeneratedData(ps, nb) ==
  [src |-> "proposals", gen |-> nb + 1,
   proposals |-> [i \in 1..Len(InferableParams(ps)) |->
                    ps[InferableParams(ps)[i]].proposals]]

\* ---- the discriminator ---------------------------------------------------
NoDiscriminator == [origin |-> "none", inits |-> 0, fits |-> 0]

\* lines 50-59: Discriminator() is constructed, wrapped and its weights are
\* initialised; the argument discriminator_model is not read
BuildDiscriminator(model) ==
  [origin |-> "Discriminator()", inits |-> 1, fits |-> 0]

\* Variant of line 88 in which every iteration trains a discriminator that
\* is constructed and initialised afresh.
FitDiscriminator_fresh(d) ==
  [origin |-> "Discriminator()", inits |-> d.inits + 1, fits |-> 1]

\* line 88: fit trains the object mcmcgan.discriminator already holds
FitDiscriminator(d) == [d EXCEPT !.fits = @ + 1]

\* ---- initial state ------------------------------------------------------
InitParam(inf) ==
  [inferable |-> inf, init |-> 0, step_size |-> 1, proposals |-> <<>>,
   bounds |-> <<0, 4>>]

Init ==
  /\ pc = "start"
  /\ max_num_iters \in -1..MaxNumIters
  /\ data_path \in BOOLEAN
  /\ num_mcmc_samples \in 1..MaxSamples
  /\ \E f \in [ParamNames -> BOOLEAN] :
        params = [q \in ParamNames |-> InitParam(f[q])]
  /\ data = NoData
  /\ discriminator_model \in BOOLEAN
  /\ discriminator = NoDiscriminator
  /\ trained_on = DataId(NoData)
  /\ phases = <<>>
  /\ LaunchIdle
  /\ iter = InitialIter
  /\ accs = <<>>
  /\ samples = <<>>
  /\ sample_stats = <<>>
  /\ medians = [bound |-> FALSE, v |-> <<>>]
  /\ stds = [bound |-> FALSE, v |-> <<>>]
  /\ convergence = FALSE
  /\ reported = [done |-> FALSE, v |-> <<>>]
  /\ ret = "running"
  /\ nTrain = 0
  /\ nSample = 0
  /\ nUpdate = 0
  /\ nBridge = 0

\* ---- actions ------------------------------------------------------------
\* lines 31-46: seed, results folder, load the genobuilder, get the datasets
LoadData ==
  /\ pc = "start"
  /\ data' = LoadedData(data_path, nBridge)
  /\ nBridge' = nBridge + BridgeCallsAtLoad(data_path)
  /\ pc' = "init"
  /\ UNCHANGED <<max_num_iters, data_path, num_mcmc_samples, params, iter,
                 accs, samples, sample_stats, medians, stds, convergence,
                 reported, ret, nTrain, nSample, nUpdate>>
  /\ UNCHANGED <<discriminator_model, discriminator, trained_on, phases>>
  /\ UNCHANGED launchVars

\* lines 48-68: MCMCGAN and Discriminator are built, the locals are set
InitMcmcgan ==
  /\ pc = "init"
  /\ iter' = InitialIter
  /\ accs' = <<>>
  /\ pc' = "while"
  /\ discriminator' = BuildDiscriminator(discriminator_model)
  /\ UNCHANGED <<max_num_iters, data_path, num_mcmc_samples, params, data,
                 samples, sample_stats, medians, stds, convergence, reported,
                 ret, nTrain, nSample, nUpdate, nBridge>>
  /\ UNCHANGED <<discriminator_model, trained_on, phases>>
  /\ UNCHANGED launchVars

\* lines 70-72: the loop condition holds, the counter advances
WhileEnter ==
  /\ pc = "while"
  /\ LoopCond(max_num_iters, iter)
  /\ iter < IterCap
  /\ iter' = NextIter(iter)
  /\ pc' = "fit"
  /\ phases' = <<>>
  /\ UNCHANGED <<max_num_iters, data_path, num_mcmc_samples, params, data,
                 accs, samples, sample_stats, medians, stds, convergence,
                 reported, ret, nTrain, nSample, nUpdate, nBridge>>
  /\ UNCHANGED <<discriminator_model, discriminator, trained_on>>
  /\ UNCHANGED launchVars

\* line 70: the loop condition fails
WhileExit ==
  /\ pc = "while"
  /\ ~LoopCond(max_num_iters, iter)
  /\ pc' = "report"
  /\ UNCHANGED <<max_num_iters, data_path, num_mcmc_samples, params, data,
                 iter, accs, samples, sample_stats, medians, stds,
                 convergence, reported, ret, nTrain, nSample, nUpdate,
                 nBridge>>
  /\ UNCHANGED <<discriminator_model, discriminator, trained_on, phases>>
  /\ UNCHANGED launchVars

\* lines 76-98: the training phase; fit returns a validation accuracy
Fit ==
  /\ pc = "fit"
  /\ \E a \in AccVals : accs' = Append(accs, a)
  /\ nTrain' = nTrain + 1
  /\ pc' = "check"
  /\ discriminator' = FitDiscriminator(discriminator)
  /\ trained_on' = DataId(data)
  /\ phases' = Append(phases, "train")
  /\ UNCHANGED <<max_num_iters, data_path, num_mcmc_samples, params, data,
                 iter, samples, sample_stats, medians, stds, convergence,
                 reported, ret, nSample, nUpdate, nBridge>>
  /\ UNCHANGED <<discriminator_model>>
  /\ UNCHANGED launchVars

\* lines 100-103: convergence check
CheckConvergence ==
  /\ pc = "check"
  /\ IF Converged(accs)
     THEN /\ convergence' = TRUE
          /\ pc' = "report"
     ELSE /\ convergence' = convergence
          /\ pc' = "setup_mcmc"
  /\ phases' = Append(phases, "check")
  /\ UNCHANGED <<max_num_iters, data_path, num_mcmc_samples, params, data,
                 iter, accs, samples, sample_stats, medians, stds, reported,
                 ret, nTrain, nSample, nUpdate, nBridge>>
  /\ UNCHANGED <<discriminator_model, discriminator, trained_on>>
  /\ UNCHANGED launchVars

\* lines 106-112: mcmcgan.setup_mcmc
SetupMcmc ==
  /\ pc = "setup_mcmc"
  /\ pc' = "run_chain"
  /\ UNCHANGED <<max_num_iters, data_path, num_mcmc_samples, params, data,
                 iter, accs, samples, sample_stats, medians, stds,
                 convergence, reported, ret, nTrain, nSample, nUpdate,
                 nBridge>>
  /\ UNCHANGED <<discriminator_model, discriminator, trained_on, phases>>
  /\ UNCHANGED launchVars

\* line 113: mcmcgan.run_chain leaves one row of num_mcmc_samples samples
\* per inferable parameter in mcmcgan.samples
RunChain ==
  /\ pc = "run_chain"
  /\ samples' \in SampleMatrices(Len(InferableParams(params)),
                                  num_mcmc_samples)
  /\ nSample' = nSample + 1
  /\ pc' = "result_to_stats"
  /\ phases' = Append(phases, "run_mcmc")
  /\ UNCHANGED <<max_num_iters, data_path, num_mcmc_samples, params, data,
                 iter, accs, sample_stats, medians, stds, convergence,
                 reported, ret, nTrain, nUpdate, nBridge>>
  /\ UNCHANGED <<discriminator_model, discriminator, trained_on>>
  /\ UNCHANGED launchVars

\* lines 116-123: result_to_stats gives the trace of adapted step sizes,
\* one entry per retained sample and coordinate
ResultToStats ==
  /\ pc = "result_to_stats"
  /\ sample_stats' \in StepTraceMatrices(Len(InferableParams(params)),
                                        num_mcmc_samples)
  /\ pc' = "summarize"
  /\ UNCHANGED <<max_num_iters, data_path, num_mcmc_samples, params, data,
                 iter, accs, samples, medians, stds, convergence, reported,
                 ret, nTrain, nSample, nUpdate, nBridge>>
  /\ UNCHANGED <<discriminator_model, discriminator, trained_on, phases>>
  /\ UNCHANGED launchVars

\* lines 127-128: medians and stds of the samples
Summarize ==
  /\ pc = "summarize"
  /\ medians' = [bound |-> TRUE, v |-> MedianAxis1(samples)]
  /\ stds' = [bound |-> TRUE, v |-> StdAxis1(samples)]
  /\ pc' = "update"
  /\ phases' = Append(phases, "summarize")
  /\ UNCHANGED <<max_num_iters, data_path, num_mcmc_samples, params, data,
                 iter, accs, samples, sample_stats, convergence, reported,
                 ret, nTrain, nSample, nUpdate, nBridge>>
  /\ UNCHANGED <<discriminator_model, discriminator, trained_on>>
  /\ UNCHANGED launchVars

\* lines 129-134: write the chain's results into the parameters
UpdateParams ==
  /\ pc = "update"
  /\ params' = UpdatedParams(params, samples, sample_stats)
  /\ nUpdate' = nUpdate + 1
  /\ pc' = "generate_data"
  /\ phases' = Append(phases, "update")
  /\ UNCHANGED <<max_num_iters, data_path, num_mcmc_samples, data, iter,
                 accs, samples, sample_stats, medians, stds, convergence,
                 reported, ret, nTrain, nSample, nBridge>>
  /\ UNCHANGED <<discriminator_model, discriminator, trained_on>>
  /\ UNCHANGED launchVars

\* lines 136-142: new datasets from the proposals
GenerateData ==
  /\ pc = "generate_data"
  /\ data' = GeneratedData(params, nBridge)
  /\ nBridge' = nBridge + 1
  /\ pc' = "while"
  /\ phases' = Append(phases, "regenerate")
  /\ UNCHANGED <<max_num_iters, data_path, num_mcmc_samples, params, iter,
                 accs, samples, sample_stats, medians, stds, convergence,
                 reported, ret, nTrain, nSample, nUpdate>>
  /\ UNCHANGED <<discriminator_model, discriminator, trained_on>>
  /\ UNCHANGED launchVars

\* lines 144-146: the final report; medians is a local that is only
\* assigned at line 127, so reading it before raises UnboundLocalError
Report ==
  /\ pc = "report"
  /\ IF medians.bound
     THEN /\ reported' = [done |-> TRUE, v |-> medians.v]
          /\ ret' = "None"
     ELSE /\ reported' = reported
          /\ ret' = "UnboundLocalError"
  /\ pc' = "done"
  /\ UNCHANGED <<max_num_iters, data_path, num_mcmc_samples, params, data,
                 iter, accs, samples, sample_stats, medians, stds,
                 convergence, nTrain, nSample, nUpdate, nBridge>>
  /\ UNCHANGED <<discriminator_model, discriminator, trained_on, phases>>
  /\ UNCHANGED launchVars

Next ==
  \/ LoadData
  \/ InitMcmcgan
  \/ WhileEnter
  \/ WhileExit
  \/ Fit
  \/ CheckConvergence
  \/ SetupMcmc
  \/ RunChain
  \/ ResultToStats
  \/ Summarize
  \/ UpdateParams
  \/ GenerateData
  \/ Report

Spec == Init /\ [][Next]_vars

\* ---- the command line program (lines 149-275), invoked twice -------------
\* A second specification: the same command line is run two times, one
\* invocation after the other.  Each invocation parses its arguments, seeds
\* its random streams and runs MaxNumIters iterations; the summary of an
\* iteration is what the three streams held when the iteration used them.
mainVars == <<pc, max_num_iters, data_path, num_mcmc_samples, params, data,
              iter, accs, samples, sample_stats, medians, stds, convergence,
              reported, ret, nTrain, nSample, nUpdate, nBridge,
              discriminator_model, discriminator, trained_on, phases>>

\* The driver's own variables are not followed in this specification.
MainIdle ==
  /\ pc = "start"
  /\ max_num_iters = MaxNumIters
  /\ data_path = FALSE
  /\ num_mcmc_samples = 1
  /\ params = [q \in ParamNames |-> InitParam(TRUE)]
  /\ data = NoData
  /\ iter = InitialIter
  /\ accs = <<>>
  /\ samples = <<>>
  /\ sample_stats = <<>>
  /\ medians = [bound |-> FALSE, v |-> <<>>]
  /\ stds = [bound |-> FALSE, v |-> <<>>]
  /\ convergence = FALSE
  /\ reported = [done |-> FALSE, v |-> <<>>]
  /\ ret = "running"
  /\ nTrain = 0
  /\ nSample = 0
  /\ nUpdate = 0
  /\ nBridge = 0
  /\ discriminator_model = FALSE
  /\ discriminator = NoDiscriminator
  /\ trained_on = DataId(NoData)
  /\ phases = <<>>

\* What can be typed after --kernel-name and --seed.
KernelNamesTyped == {"hmc", "nuts", "randomwalk", "random-walk", "rwm"}
SeedsTyped == {"None", "s1", "s2"}

\* What a generator that nobody seeds starts from.
Entropy == {"e1", "e2"}

\* Variant of line 168 with the hyphenated name.
KernelChoices_hyphen == {"hmc", "nuts", "random-walk"}

\* line 168: choices=["hmc", "nuts", "randomwalk"]
KernelChoices == {"hmc", "nuts", "randomwalk"}

\* A random stream is known by what it was started from and how many
\* draws were taken from it.
Stream(src) == [src |-> src, n |-> 0]
Draw(st) == [st EXCEPT !.n = @ + 1]

\* lines 31 and 49: np.random.seed(seed) and MCMCGAN(genob, kernel_name,
\* seed); a seed of None starts the stream from entropy
SeededStream(sd, e) == IF sd = "None" THEN Stream(e) ELSE Stream(sd)

\* lines 59, 80 and 84: weights_init and the shuffling DataLoaders draw from
\* torch's generator, which the driver never seeds
TorchStream(sd, e) == Stream(e)

NoRng == <<>>

LaunchInit ==
  /\ lpc = "parse"
  /\ kernel_name \in KernelNamesTyped
  /\ seed \in SeedsTyped
  /\ invocation = 1
  /\ rng = NoRng
  /\ summaries = <<<<>>, <<>>>>
  /\ MainIdle

\* lines 152-259: parse_args; a kernel name outside the choices ends the
\* program with a usage error
ParseArgs ==
  /\ lpc = "parse"
  /\ lpc' = IF kernel_name \in KernelChoices THEN "call" ELSE "rejected"
  /\ UNCHANGED <<kernel_name, seed, invocation, rng, summaries>>
  /\ UNCHANGED mainVars

\* lines 261-275 and 31-59: run_genomcmcgan is called and sets up its
\* random streams
SeedStreams ==
  /\ lpc = "call"
  /\ \E enp \in Entropy, etorch \in Entropy, emcmc \in Entropy :
       rng' = [np |-> SeededStream(seed, enp),
               torch |-> TorchStream(seed, etorch),
               mcmc |-> SeededStream(seed, emcmc)]
  /\ lpc' = "loop"
  /\ UNCHANGED <<kernel_name, seed, invocation, summaries>>
  /\ UNCHANGED mainVars

\* lines 70-142: one iteration; training draws from torch, the chain from
\* the MCMC stream, the simulations from numpy
Iterate ==
  /\ lpc = "loop"
  /\ Len(summaries[invocation]) < MaxNumIters
  /\ summaries' = [summaries EXCEPT ![invocation] =
                     Append(@, <<rng.np, rng.torch, rng.mcmc>>)]
  /\ rng' = [np |-> Draw(rng.np), torch |-> Draw(rng.torch),
             mcmc |-> Draw(rng.mcmc)]
  /\ UNCHANGED <<lpc, kernel_name, seed, invocation>>
  /\ UNCHANGED mainVars

\* lines 144-146: the invocation ends; the second one starts after the first
EndRun ==
  /\ lpc = "loop"
  /\ Len(summaries[invocation]) = MaxNumIters
  /\ IF invocation = 1
     THEN /\ invocation' = 2
          /\ lpc' = "call"
     ELSE /\ invocation' = invocation
          /\ lpc' = "done"
  /\ UNCHANGED <<kernel_name, seed, rng, summaries>>
  /\ UNCHANGED mainVars

LaunchNext ==
  \/ ParseArgs
  \/ SeedStreams
  \/ Iterate
  \/ EndRun

LaunchSpec == LaunchInit /\ [][LaunchNext]_vars

\* ---- properties ---------------------------------------------------------
Finished == pc = "done"

LowAccuracySeen == \E i \in 1..Len(accs) : FloatLt(accs[i], Threshold)

\* Python's a >= t: False whenever a is NaN.
FloatGe(a, t) == (~a.nan) /\ a.pct >= t

\* C1: once an accuracy below the threshold is in the accuracy history, no
\* step starts setup_mcmc or run_chain and the number of sampling phases
\* never grows again.
C1_NoSamplingAfterLowAccuracy ==
  [][LowAccuracySeen =>
       /\ nSample' = nSample
       /\ pc' \notin {"setup_mcmc", "run_chain", "result_to_stats"}]_vars

C1_Witness ==
  /\ Finished
  /\ Len(accs) >= 2
  /\ FloatLt(Last(accs), Threshold)
  /\ nSample = Len(accs) - 1

\* C2: the number of training phases never exceeds max_num_iters (no
\* training phase at all when max_num_iters is negative).
C2_AtMostMaxNumIters ==
  nTrain <= (IF max_num_iters < 0 THEN 0 ELSE max_num_iters)

\* C3: when the accuracies of iterations 1..k-1 are all >= 0.55 and the
\* accuracy of iteration k is below 0.55, with 1 <= k <= max_num_iters, the
\* run is in iteration k with exactly k training phases and k-1 sampling
\* phases, it never goes on to the sampler, and once the check has run it
\* has printed "convergence".
FirstLowAt(k) ==
  /\ k \in 1..Len(accs)
  /\ k <= max_num_iters
  /\ \A j \in 1..(k - 1) : FloatGe(accs[j], Threshold)
  /\ FloatLt(accs[k], Threshold)

C3_HaltsAtFirstLowAccuracy ==
  \A k \in 1..IterCap :
    FirstLowAt(k) =>
      /\ Len(accs) = k
      /\ iter = k
      /\ nTrain = k
      /\ nSample = k - 1
      /\ pc \in {"check", "report", "done"}
      /\ (pc # "check" => convergence)

C3_Witness ==
  /\ Finished
  /\ accs = <<AccNum(55), AccNum(40)>>
  /\ convergence
  /\ nTrain = 2
  /\ nSample = 1
  /\ iter = 2

\* Scenario A: max_num_iters is 3 and every accuracy reported so far is 0.5.
ScenarioA ==
  /\ max_num_iters = 3
  /\ Len(accs) >= 1
  /\ \A i \in 1..Len(accs) : accs[i] = AccNum(50)

\* C4 as stated: in scenario A the finished run has made exactly 3 training
\* phases and 3 sampling phases and has not stopped early.
C4_ScenarioA_ThreeAndThree ==
  (ScenarioA /\ Finished) => (nTrain = 3 /\ nSample = 3 /\ ~convergence)

\* C4 amended: in scenario A the run makes exactly one training phase and
\* no sampling phase; it stops by convergence in iteration 1.
C4_ScenarioA_StopsInFirstIteration ==
  ScenarioA =>
    /\ nTrain = 1
    /\ nSample = 0
    /\ iter = 1
    /\ pc \in {"check", "report", "done"}
    /\ (pc # "check" => convergence)

C4_Witness ==
  /\ Finished
  /\ max_num_iters = 3
  /\ accs = <<AccNum(50)>>
  /\ convergence
  /\ nTrain = 1
  /\ nSample = 0

\* C5: every finished run that made at least one training phase has
\* printed its final report without raising, and the values printed are the
\* medians of the samples of the most recent sampling phase.
C5_FinalReportNeverRaises ==
  (Finished /\ nTrain >= 1) =>
    /\ ret = "None"
    /\ reported.done
    /\ reported.v = MedianAxis1(samples)

\* C6: a run with max_num_iters = 0 finishes normally with a report and
\* without any training phase, sampling phase or parameter update.
C6_ZeroItersIsNoOp ==
  (Finished /\ max_num_iters = 0) =>
    /\ ret = "None"
    /\ reported.done
    /\ nTrain = 0
    /\ nSample = 0
    /\ nUpdate = 0

\* C7: a run that finished because max_num_iters iterations were completed
\* without convergence hands the caller the status MAX_ITERS_REACHED.
C7_ExplicitMaxItersStatus ==
  (Finished /\ ~convergence /\ nTrain >= 1 /\ iter = max_num_iters) =>
    ret = "MAX_ITERS_REACHED"

JustUpdated == pc = "generate_data"

C9_EstimateIsCenterAndStepIsStd ==
  JustUpdated =>
    \A i \in 1..Len(InferableParams(params)) :
      LET q == InferableParams(params)[i]
          n == Len(samples[i])
      IN /\ \/ 2 * params[q].init = Median2(samples[i])
            \/ n * params[q].init = SumSeq(samples[i])
         /\ n * n * params[q].step_size * params[q].step_size
              = StdN2(samples[i])

NoInferable == \A q \in ParamNames : ~params[q].inferable

\* C10: with no inferable parameter the run ends with a configuration
\* error before any training: fit and the sampler are never called.
C10_NoTrainingWithoutInferable ==
  NoInferable => (nTrain = 0 /\ nSample = 0)

\* C11: when fit has returned an undefined (NaN) accuracy in iteration i,
\* the iteration is aborted: no sampling phase, no parameter update and no
\* data regeneration happens in iteration i or later, so the counts stay
\* those of the i-1 iterations completed before.
C11_NaNAccuracyAbortsIteration ==
  \A i \in 1..Len(accs) :
    accs[i].nan =>
      /\ nSample = i - 1
      /\ nUpdate = i - 1
      /\ pc \notin {"setup_mcmc", "run_chain", "result_to_stats",
                    "summarize", "update", "generate_data"}

\* C13: when a discriminator model file is given, the discriminator that
\* fit trains is the loaded one, not a newly constructed and initialised one.
C13_LoadedDiscriminatorIsUsed ==
  (discriminator_model /\ nTrain >= 1) =>
    /\ discriminator.origin = "loaded"
    /\ discriminator.inits = 0

PhaseOrder ==
  <<"train", "check", "run_mcmc", "summarize", "update", "regenerate">>

IsPrefix(s, t) == Len(s) <= Len(t) /\ \A k \in 1..Len(s) : s[k] = t[k]

\* C15: the phases of an iteration happen once each in the order train,
\* check, run MCMC, summarize, update, regenerate; an iteration that comes
\* back to the loop test has done all six; and from iteration 2 on, the
\* dataset fit was given is the one the Bridge made from the proposals the
\* update of the iteration before wrote (that iteration's samples).
C15_PhasesInOrder ==
  /\ IsPrefix(phases, PhaseOrder)
  /\ (pc = "while" /\ iter >= 1) => phases = PhaseOrder
  /\ (pc = "check" /\ iter >= 2) =>
       /\ phases = <<"train">>
       /\ trained_on = DataId(data)
       /\ data.src = "proposals"
       /\ data.gen = nBridge
       /\ nUpdate = iter - 1
       /\ data.proposals = samples
       /\ \A i \in 1..Len(InferableParams(params)) :
            params[InferableParams(params)[i]].proposals = data.proposals[i]

C15_Witness ==
  /\ pc = "check"
  /\ iter = 2
  /\ Len(InferableParams(params)) = 2
  /\ trained_on = DataId(data)
  /\ data.src = "proposals"
  /\ data.proposals = samples

SamplerDone ==
  pc \in {"result_to_stats", "summarize", "update", "generate_data"}

\* C17: the driver calls generate_data once before the loop exactly when no
\* data file is given and once after each sampling phase, so at every point
\* the number of calls is the number of sampling phases whose iteration got
\* to the regeneration, plus one when no data file is given; no call
\* follows an accuracy below the threshold.
C17_BridgeCalls ==
  (pc # "start") =>
    LET first == IF data_path THEN 0 ELSE 1
    IN /\ nBridge = first + (IF SamplerDone THEN nSample - 1 ELSE nSample)
       /\ LowAccuracySeen => nBridge = first + Len(accs) - 1

C17_Witness ==
  /\ Finished
  /\ data_path
  /\ convergence
  /\ nSample = 2
  /\ nBridge = 2

C19_UpdateOnlyAfterSampling ==
  /\ [](/\ nUpdate <= nSample
        /\ nSample <= nUpdate + 1
        /\ nUpdate <= iter
        /\ (pc \in {"while", "report", "done"} => nUpdate = nSample))
  /\ [][/\ (params' # params) =>
             (pc = "update" /\ nUpdate' = nUpdate + 1 /\ nSample = nUpdate')
        /\ ((LowAccuracySeen \/ (max_num_iters = 0 /\ pc # "start")) =>
             (params' = params /\ data' = data /\ nUpdate' = nUpdate))]_vars

C19_Witness ==
  /\ Finished
  /\ convergence
  /\ nUpdate = 1
  /\ nSample = 1
  /\ iter = 2
  /\ \E q \in ParamNames : params[q].proposals # <<>>

\* C20: at the loop test and after the loop, the accuracy history has one
\* entry per iteration counted, and the number of sampling phases is the
\* counter, or the counter minus one exactly when the loop was left by
\* convergence.
C20_CountersAtIterationBoundary ==
  (pc \in {"while", "report", "done"}) =>
    /\ Len(accs) = iter
    /\ nTrain = iter
    /\ nSample = iter - (IF convergence THEN 1 ELSE 0)

C20_Witness ==
  /\ pc = "report"
  /\ convergence
  /\ iter = 2
  /\ Len(accs) = 2
  /\ nSample = 1

\* C12: two invocations with the same seed (not None) and the same command
\* line give the same sequence of per-iteration summaries.
C12_SameSeedSameSummaries ==
  (lpc = "done" /\ seed # "None") => summaries[1] = summaries[2]

\* C14 as stated: the kernel names that pass the parser are exactly hmc,
\* nuts and random-walk.
C14_AcceptsHyphenatedName ==
  (lpc # "parse") =>
    ((lpc # "rejected") <=> kernel_name \in {"hmc", "nuts", "random-walk"})

\* C14 amended: the kernel names that pass the parser are exactly hmc, nuts
\* and randomwalk; with any other name, random-walk included, the program
\* ends in the parser and no run is set up and nothing is trained.
C14_AcceptsExactlyTheChoices ==
  (lpc # "parse") =>
    /\ (lpc # "rejected") <=> kernel_name \in {"hmc", "nuts", "randomwalk"}
    /\ (lpc = "rejected") =>
         (rng = NoRng /\ summaries = <<<<>>, <<>>>> /\ invocation = 1)

C14_Witness ==
  /\ lpc = "rejected"
  /\ kernel_name = "random-walk"
  /\ summaries = <<<<>>, <<>>>>

====
